---- MODULE Spec2Model ----
(***************************************************************************)
(* A model of the esp32-wifi board module: one board instance, bound at    *)
(* construction to the BLE backend (esp32_ble.go) or to the HTTP backend   *)
(* (write_linux.go).                                                       *)
(*                                                                         *)
(* Strings are sequences of character codes, so that strings.EqualFold and *)
(* strconv.Atoi are computed the way the Go library computes them.         *)
(***************************************************************************)
EXTENDS Integers, Sequences, FiniteSets, TLC

VARIABLES
    backend,        \* "ble" | "http": which model the framework instantiates
    target,         \* conf.BTServerName (BleConfig), <<>> on the HTTP backend
    ctorPc,         \* position of the constructor: start, select, connect, returned
    enabled,        \* outcome of adapter.Enable(): unknown, ok, fail
    scanPc,         \* position of the scan goroutine: idle, spawned, scanning, matched, sent, errored, done
    nAdverts,       \* advertisements delivered to the scan callback so far
    cur,            \* the ScanResult the running callback was invoked with
    deviceFound,    \* the capacity-1 channel of ScanResults
    timerFired,     \* time.After(10s) has sent on its channel
    result,         \* the ScanResult the constructor received, or NoResult
    connectCount,   \* number of adapter.Connect calls
    connectArg,     \* address given to the last adapter.Connect, 0 if none
    connected,      \* the device handle's link is up
    stopCalls,      \* number of adapter.StopScan calls
    canceledBy,     \* who has invoked cancelFunc: subset of {"ctor","scan","close"}
    board,          \* the value NewEsp32Ble / NewEsp32Wifi returned: Nil or a record
    err,            \* the error it returned: none, enable, timeout, connect
    firstReady,     \* what happened first after the scan was started: none, found, timer, scanerr
    store,          \* the HTTP server's state per pin: the last one written, 0 at first
    lastSet,        \* per pin, the level of the last successful Set that no other write to the pin followed
    lastDuty,       \* per pin, the duty cycle of the last successful SetPWM that no other write to the pin followed
    lastCall        \* what the last pin/board operation did and returned

vars == <<backend, target, ctorPc, enabled, scanPc, nAdverts, cur, deviceFound,
          timerFired, result, connectCount, connectArg, connected, stopCalls,
          canceledBy, board, err, firstReady, store, lastSet, lastDuty, lastCall>>

----------------------------------------------------------------------------
(* Bounds *)

MaxNameLen == 2     \* longest advertised / configured name
MaxAdverts == 3     \* advertisements one scan delivers
MaxServices == 2    \* services DiscoverServices returns
DutyDenom == 8      \* duty cycles are the multiples of 1/DutyDenom in [0,1]

----------------------------------------------------------------------------
(* Names and scan results *)

\* 'A', 'a', 'b'
NameChars == {65, 97, 98}

RECURSIVE SeqsUpTo(_, _)
SeqsUpTo(S, n) ==
    IF n = 0 THEN {<<>>}
    ELSE LET shorter == SeqsUpTo(S, n - 1)
         IN  shorter \cup {Append(s, c) : s \in shorter, c \in S}

AdvNames == SeqsUpTo(NameChars, MaxNameLen)

\* the configured names tried: "Ab" and "a" (BleConfig.Validate rejects "")
TargetNames == {<<65, 98>>, <<97>>}

\* peripheral addresses
Addrs == {1, 2}

ScanResults == [name : AdvNames, addr : Addrs]

NoResult == [name |-> <<>>, addr |-> 0]

Nil == [kind |-> "nil", device |-> 0]

\* unicode simple folding restricted to ASCII letters
FoldChar(c) == IF c >= 65 /\ c <= 90 THEN c + 32 ELSE c

EqualFold(s, t) ==
    /\ Len(s) = Len(t)
    /\ \A i \in 1..Len(s) : FoldChar(s[i]) = FoldChar(t[i])

----------------------------------------------------------------------------
(* Pin names, strconv.Atoi, request bodies *)

\* the pin names tried: "1", "2", "-1", "x"
PinNames == {<<49>>, <<50>>, <<45, 49>>, <<120>>}

IsDigit(c) == c >= 48 /\ c <= 57

RECURSIVE DigitsVal(_)
DigitsVal(d) ==
    IF d = <<>> THEN 0
    ELSE DigitsVal(SubSeq(d, 1, Len(d) - 1)) * 10 + (d[Len(d)] - 48)

\* strconv.Atoi: an optional sign, then one or more decimal digits; 0 with an error otherwise
Atoi(s) ==
    LET signed == s # <<>> /\ s[1] \in {43, 45}
        digits == IF signed THEN Tail(s) ELSE s
    IN  IF digits = <<>> \/ \E i \in 1..Len(digits) : ~IsDigit(digits[i])
        THEN [ok |-> FALSE, val |-> 0]
        ELSE [ok |-> TRUE,
              val |-> IF s[1] = 45 THEN 0 - DigitsVal(digits) ELSE DigitsVal(digits)]

\* the pins the server has: the numbers the names stand for that are not negative
Pins == {q \in {Atoi(n).val : n \in {m \in PinNames : Atoi(m).ok}} : q >= 0}

\* the duty cycles tried, in units of 1/DutyDenom: 1/DutyDenom and 1
DutyNums == {1, DutyDenom}

\* a level written as 1 for high
SetStateOne(high) == IF high THEN 1 ELSE 0

\* state := 0; if high { state = 100 }
SetState(high) == IF high THEN 100 ELSE 0

\* int(dutyCyclePct * 100), the duty cycle being n / DutyDenom
PWMState(n) == (n * 100) \div DutyDenom

\* {"pin_writes": [{"pin_num": pinNum, "state": state}]}
WriteBody(pinNum, state) == [pin_writes |-> <<[pin_num |-> pinNum, state |-> state]>>]

\* {"pin_reads": [pinNum]}
ReadBody(pinNum) == [pin_reads |-> <<pinNum>>]

\* no answer was received
NoResp == [status |-> 0, kind |-> "none", state |-> 0]

\* DiscoverServices was not called
NoDisc == <<>>

\* what an operation did and returned; resp is the answer an HTTP read received,
\* disc what the discovery of a BLE Set found
Call(op, pin, arg, res, got, status, b, n, sent) ==
    [op |-> op, pin |-> pin, arg |-> arg, res |-> res, got |-> got,
     status |-> status, bool |-> b, num |-> n, sent |-> sent,
     resp |-> NoResp, disc |-> NoDisc]

NoCall == Call("none", <<>>, 0, "none", 0, 0, FALSE, 0, <<>>)

----------------------------------------------------------------------------
(* cancelFunc *)

Cancel(who) == canceledBy' = canceledBy \cup {who}

----------------------------------------------------------------------------
(* NewEsp32Ble: the constructor *)

\* adapter.Enable(); on success the channel, the timer and the scan goroutine
CtorEnable ==
    /\ backend = "ble"
    /\ ctorPc = "start"
    /\ \E ok \in BOOLEAN :
         IF ok
         THEN /\ enabled' = "ok"
              /\ ctorPc' = "select"
              /\ scanPc' = "spawned"
              /\ UNCHANGED <<canceledBy, err>>
         ELSE /\ enabled' = "fail"
              /\ Cancel("ctor")
              /\ err' = "enable"
              /\ ctorPc' = "returned"
              /\ UNCHANGED scanPc
    /\ UNCHANGED <<backend, target, nAdverts, cur, deviceFound, timerFired, result,
                   connectCount, connectArg, connected, stopCalls, board, firstReady,
                   store, lastSet, lastDuty, lastCall>>

\* the runtime timer of time.After(10 * time.Second); only the select reads it
TimerFire ==
    /\ backend = "ble"
    /\ ctorPc = "select"
    /\ ~timerFired
    /\ timerFired' = TRUE
    /\ firstReady' = IF firstReady = "none" THEN "timer" ELSE firstReady
    /\ UNCHANGED <<backend, target, ctorPc, enabled, scanPc, nAdverts, cur, deviceFound,
                   result, connectCount, connectArg, connected, stopCalls, canceledBy,
                   board, err, store, lastSet, lastDuty, lastCall>>

\* the goroutine enters adapter.Scan
ScanBegin ==
    /\ scanPc = "spawned"
    /\ scanPc' = "scanning"
    /\ UNCHANGED <<backend, target, ctorPc, enabled, nAdverts, cur, deviceFound,
                   timerFired, result, connectCount, connectArg, connected, stopCalls,
                   canceledBy, board, err, firstReady, store, lastSet, lastDuty, lastCall>>

\* the test that guards the log line, used for the match
IsTargetNonEmpty(ad) == ad.name # <<>>

\* the callback's name test
IsTarget(ad) == EqualFold(ad.name, target)

\* one invocation of the scan callback, up to the name test
ScanCallback ==
    /\ scanPc = "scanning"
    /\ nAdverts < MaxAdverts
    /\ \E ad \in ScanResults :
         IF IsTarget(ad)
         THEN cur' = ad /\ scanPc' = "matched"
         ELSE cur' = NoResult /\ scanPc' = "scanning"
    /\ nAdverts' = nAdverts + 1
    /\ UNCHANGED <<backend, target, ctorPc, enabled, deviceFound, timerFired,
                   result, connectCount, connectArg, connected, stopCalls,
                   canceledBy, board, err, firstReady, store, lastSet, lastDuty, lastCall>>

\* a send that waits for room in the channel
TrySendBlocking(ad) ==
    /\ Len(deviceFound) < 1
    /\ deviceFound' = Append(deviceFound, ad)
    /\ scanPc' = "sent"
    /\ firstReady' = IF firstReady = "none" THEN "found" ELSE firstReady
    /\ UNCHANGED cur

\* select { case deviceFound <- result: ... default: }
TrySend(ad) ==
    IF Len(deviceFound) < 1
    THEN /\ deviceFound' = Append(deviceFound, ad)
         /\ scanPc' = "sent"
         /\ firstReady' = IF firstReady = "none" THEN "found" ELSE firstReady
         /\ UNCHANGED cur
    ELSE /\ scanPc' = "scanning"
         /\ cur' = NoResult
         /\ UNCHANGED <<deviceFound, firstReady>>

\* the callback's select on a matching advertisement
ScanSend ==
    /\ scanPc = "matched"
    /\ TrySend(cur)
    /\ UNCHANGED <<backend, target, ctorPc, enabled, nAdverts, timerFired,
                   result, connectCount, connectArg, connected, stopCalls,
                   canceledBy, board, err, store, lastSet, lastDuty, lastCall>>

\* adapter.StopScan() after a successful send; the callback returns
ScanStop ==
    /\ scanPc = "sent"
    /\ stopCalls' = stopCalls + 1
    /\ scanPc' = "scanning"
    /\ cur' = NoResult
    /\ UNCHANGED <<backend, target, ctorPc, enabled, nAdverts, deviceFound,
                   timerFired, result, connectCount, connectArg, connected, canceledBy,
                   board, err, firstReady, store, lastSet, lastDuty, lastCall>>

\* adapter.Scan returns nil once the scan was stopped
ScanReturn ==
    /\ scanPc = "scanning"
    /\ stopCalls > 0
    /\ scanPc' = "done"
    /\ UNCHANGED <<backend, target, ctorPc, enabled, nAdverts, cur, deviceFound,
                   timerFired, result, connectCount, connectArg, connected, stopCalls,
                   canceledBy, board, err, firstReady, store, lastSet, lastDuty, lastCall>>

\* adapter.Scan returns an error: logged, cancelFunc, the value is dropped
ScanFail ==
    /\ scanPc = "scanning"
    /\ scanPc' = "errored"
    /\ Cancel("scan")
    /\ firstReady' = IF firstReady = "none" THEN "scanerr" ELSE firstReady
    /\ UNCHANGED <<backend, target, ctorPc, enabled, nAdverts, cur, deviceFound,
                   timerFired, result, connectCount, connectArg, connected, stopCalls,
                   board, err, store, lastSet, lastDuty, lastCall>>

\* select case result := <-deviceFound
CtorSelectFound ==
    /\ ctorPc = "select"
    /\ Len(deviceFound) > 0
    /\ result' = Head(deviceFound)
    /\ deviceFound' = Tail(deviceFound)
    /\ ctorPc' = "connect"
    /\ UNCHANGED <<backend, target, enabled, scanPc, nAdverts, cur, timerFired,
                   connectCount, connectArg, connected, stopCalls, canceledBy, board, err,
                   firstReady, store, lastSet, lastDuty, lastCall>>

\* a timeout case that also waits for the scan goroutine to end
CtorSelectTimeoutJoin ==
    /\ ctorPc = "select"
    /\ timerFired
    /\ scanPc \in {"done", "errored"}
    /\ Cancel("ctor")
    /\ err' = "timeout"
    /\ ctorPc' = "returned"
    /\ UNCHANGED <<backend, target, enabled, scanPc, nAdverts, cur, deviceFound,
                   timerFired, result, connectCount, connectArg, connected, stopCalls,
                   board, firstReady, store, lastSet, lastDuty, lastCall>>

\* a timeout case taken without the timer having fired
CtorSelectTimeoutEager ==
    /\ ctorPc = "select"
    /\ Cancel("ctor")
    /\ err' = "timeout"
    /\ ctorPc' = "returned"
    /\ UNCHANGED <<backend, target, enabled, scanPc, nAdverts, cur, deviceFound,
                   timerFired, result, connectCount, connectArg, connected, stopCalls,
                   board, firstReady, store, lastSet, lastDuty, lastCall>>

\* select case <-timeout
CtorSelectTimeout ==
    /\ ctorPc = "select"
    /\ timerFired
    /\ Cancel("ctor")
    /\ err' = "timeout"
    /\ ctorPc' = "returned"
    /\ UNCHANGED <<backend, target, enabled, scanPc, nAdverts, cur, deviceFound,
                   timerFired, result, connectCount, connectArg, connected, stopCalls,
                   board, firstReady, store, lastSet, lastDuty, lastCall>>

\* a Connect whose error path logs and cancels but does not return
CtorConnectNoReturn ==
    /\ ctorPc = "connect"
    /\ connectCount' = connectCount + 1
    /\ connectArg' = result.addr
    /\ \E ok \in BOOLEAN :
         IF ok
         THEN /\ connected' = TRUE
              /\ UNCHANGED canceledBy
         ELSE /\ Cancel("ctor")
              /\ UNCHANGED connected
    /\ board' = [kind |-> "ble", device |-> result.addr]
    /\ ctorPc' = "returned"
    /\ UNCHANGED <<backend, target, enabled, scanPc, nAdverts, cur, deviceFound,
                   timerFired, result, stopCalls, err, firstReady, store, lastSet, lastDuty,
                   lastCall>>

\* adapter.Connect(result.Address, ...) and the return of the board
CtorConnect ==
    /\ ctorPc = "connect"
    /\ connectCount' = connectCount + 1
    /\ connectArg' = result.addr
    /\ \E ok \in BOOLEAN :
         IF ok
         THEN /\ board' = [kind |-> "ble", device |-> result.addr]
              /\ connected' = TRUE
              /\ UNCHANGED <<canceledBy, err>>
         ELSE /\ Cancel("ctor")
              /\ err' = "connect"
              /\ UNCHANGED <<board, connected>>
    /\ ctorPc' = "returned"
    /\ UNCHANGED <<backend, target, enabled, scanPc, nAdverts, cur, deviceFound,
                   timerFired, result, stopCalls, firstReady, store, lastSet, lastDuty,
                   lastCall>>

----------------------------------------------------------------------------
(* The HTTP backend: the server the board talks to *)

NoPin == 0 - 1000

\* answers of the server to a write: its status
WriteServers == [status : {200, 404, 500}, kind : {"good"}]

\* answers of the server to a read: its status and the shape of its body
ReadServers ==
    [status : {200}, kind : {"good", "notjson", "nokey", "empty", "nostate"}]
        \cup [status : {404, 500}, kind : {"good"}]

\* the transport fails, or the server answers
Answers(servers) == [net : {"fail"}, srv : {CHOOSE v \in servers : TRUE}]
                        \cup [net : {"ok"}, srv : servers]

\* the server's store after a request it answers with 200
StoreAfter(st, req, srv) ==
    IF srv.status = 200 /\ req.endpoint = "write-pins"
    THEN LET w == req.body.pin_writes[1]
         IN  IF w.pin_num \in DOMAIN st THEN [st EXCEPT ![w.pin_num] = w.state] ELSE st
    ELSE st

\* the server's answer: on read-pins it echoes the last state written
Serve(st, req, srv) ==
    [status |-> srv.status,
     kind |-> srv.kind,
     state |-> IF req.endpoint = "read-pins" /\ req.body.pin_reads[1] \in DOMAIN st
               THEN st[req.body.pin_reads[1]] ELSE 0]

\* a client that sends the request again when the first try is not answered with 200
DoRetry(req, net, srv) ==
    IF net = "fail"
    THEN [sent |-> <<req, req>>, ok |-> FALSE, resp |-> NoResp, store |-> store]
    ELSE [sent |-> IF srv.status = 200 THEN <<req>> ELSE <<req, req>>,
          ok |-> TRUE,
          resp |-> Serve(store, req, srv),
          store |-> StoreAfter(store, req, srv)]

\* client.Do(req): the request is sent once; the transport fails or the server answers
Do(req, net, srv) ==
    IF net = "fail"
    THEN [sent |-> <<req>>, ok |-> FALSE, resp |-> NoResp, store |-> store]
    ELSE [sent |-> <<req>>,
          ok |-> TRUE,
          resp |-> Serve(store, req, srv),
          store |-> StoreAfter(store, req, srv)]

\* the outcome of a write: send error, status error, nil
WriteOutcome(x) ==
    IF ~x.ok THEN "err_send"
    ELSE IF x.resp.status # 200 THEN "err_status"
    ELSE "ok"

\* the outcome of a read: send error, status error, decode error, the unchecked
\* type assertions on the decoded body, a value
ReadOutcome(x) ==
    IF ~x.ok THEN "err_send"
    ELSE IF x.resp.status # 200 THEN "err_status"
    ELSE IF x.resp.kind = "notjson" THEN "err_decode"
    ELSE IF x.resp.kind # "good" THEN "panic"
    ELSE "ok"

\* resp.Status in the error of a non-200 answer
ErrStatus(x) == IF x.ok /\ x.resp.status # 200 THEN x.resp.status ELSE 0

\* the level of the last successful Set on a pin, forgotten on any other write to it
NoteWrite(p, level, x) ==
    IF x.ok /\ x.resp.status = 200 /\ p \in DOMAIN lastSet
    THEN [lastSet EXCEPT ![p] = level]
    ELSE lastSet

\* the duty cycle of the last successful SetPWM on a pin, forgotten on any other write to it
NoteDuty(op, p, arg, x) ==
    IF x.ok /\ x.resp.status = 200 /\ p \in DOMAIN lastDuty
    THEN [lastDuty EXCEPT ![p] = IF op = "SetPWM" THEN arg ELSE NoPin]
    ELSE lastDuty

httpReady == backend = "http" /\ ctorPc = "returned" /\ board # Nil

\* a write operation (Set, SetPWM) with the state it encodes
HttpWrite(op, name, arg, state, net, srv, level) ==
    LET a == Atoi(name)
        req == [endpoint |-> "write-pins", to |-> <<>>, body |-> WriteBody(a.val, state)]
        x == Do(req, net, srv)
    IN  IF ~a.ok
        THEN /\ lastCall' = Call(op, name, arg, "err_atoi", 0, 0, FALSE, 0, <<>>)
             /\ UNCHANGED <<store, lastSet, lastDuty>>
        ELSE /\ lastCall' = Call(op, name, arg, WriteOutcome(x), x.resp.status,
                                 ErrStatus(x), FALSE, 0, x.sent)
             /\ store' = x.store
             /\ lastSet' = NoteWrite(a.val, level, x)
             /\ lastDuty' = NoteDuty(op, a.val, arg, x)

\* a Get that takes every state above zero for high
GetValueNonZero(state) == state > 0

\* Get: state == 100
GetValue(state) == state = 100

\* PWM: the state as it came
PWMValue(state) == state

\* analog Read: int(state)
ReadValue(state) == state

\* the boolean a read operation returns
ReadBool(op, state) == op = "Get" /\ GetValue(state)

\* the number a read operation returns
ReadNum(op, state) ==
    IF op = "PWM" THEN PWMValue(state)
    ELSE IF op = "AnalogRead" THEN ReadValue(state)
    ELSE 0

\* a read operation (Get, PWM, analog Read)
HttpRead(op, name, net, srv) ==
    LET a == Atoi(name)
        req == [endpoint |-> "read-pins", to |-> <<>>, body |-> ReadBody(a.val)]
        x == Do(req, net, srv)
        good == ReadOutcome(x) = "ok"
    IN  IF ~a.ok
        THEN /\ lastCall' = Call(op, name, 0, "err_atoi", 0, 0, FALSE, 0, <<>>)
             /\ UNCHANGED <<store, lastSet, lastDuty>>
        ELSE /\ lastCall' = [Call(op, name, 0, ReadOutcome(x), x.resp.status,
                                  ErrStatus(x),
                                  IF good THEN ReadBool(op, x.resp.state) ELSE FALSE,
                                  IF good THEN ReadNum(op, x.resp.state) ELSE 0,
                                  x.sent)
                             EXCEPT !.resp = x.resp]
             /\ store' = x.store
             /\ UNCHANGED <<lastSet, lastDuty>>

\* NewEsp32Wifi
HttpNew ==
    /\ backend = "http"
    /\ ctorPc = "start"
    /\ board' = [kind |-> "http", device |-> 0]
    /\ ctorPc' = "returned"
    /\ UNCHANGED <<backend, target, enabled, scanPc, nAdverts, cur, deviceFound,
                   timerFired, result, connectCount, connectArg, connected,
                   stopCalls, canceledBy, err, firstReady, store, lastSet, lastDuty, lastCall>>

\* gpioPinClient.Set
HttpSet ==
    /\ httpReady
    /\ \E name \in PinNames, high \in BOOLEAN, a \in Answers(WriteServers) :
         HttpWrite("Set", name, IF high THEN 1 ELSE 0, SetState(high), a.net, a.srv,
                   IF high THEN 100 ELSE 0)
    /\ UNCHANGED <<backend, target, ctorPc, enabled, scanPc, nAdverts, cur,
                   deviceFound, timerFired, result, connectCount, connectArg,
                   connected, stopCalls, canceledBy, board, err, firstReady>>

\* gpioPinClient.SetPWM
HttpSetPWM ==
    /\ httpReady
    /\ \E name \in PinNames, n \in DutyNums, a \in Answers(WriteServers) :
         HttpWrite("SetPWM", name, n, PWMState(n), a.net, a.srv, NoPin)
    /\ UNCHANGED <<backend, target, ctorPc, enabled, scanPc, nAdverts, cur,
                   deviceFound, timerFired, result, connectCount, connectArg,
                   connected, stopCalls, canceledBy, board, err, firstReady>>

\* gpioPinClient.Get
HttpGet ==
    /\ httpReady
    /\ \E name \in PinNames, a \in Answers(ReadServers) :
         HttpRead("Get", name, a.net, a.srv)
    /\ UNCHANGED <<backend, target, ctorPc, enabled, scanPc, nAdverts, cur,
                   deviceFound, timerFired, result, connectCount, connectArg,
                   connected, stopCalls, canceledBy, board, err, firstReady>>

\* gpioPinClient.PWM
HttpPWM ==
    /\ httpReady
    /\ \E name \in PinNames, a \in Answers(ReadServers) :
         HttpRead("PWM", name, a.net, a.srv)
    /\ UNCHANGED <<backend, target, ctorPc, enabled, scanPc, nAdverts, cur,
                   deviceFound, timerFired, result, connectCount, connectArg,
                   connected, stopCalls, canceledBy, board, err, firstReady>>

\* analogClient.Read
HttpAnalogRead ==
    /\ httpReady
    /\ \E name \in PinNames, a \in Answers(ReadServers) :
         HttpRead("AnalogRead", name, a.net, a.srv)
    /\ UNCHANGED <<backend, target, ctorPc, enabled, scanPc, nAdverts, cur,
                   deviceFound, timerFired, result, connectCount, connectArg,
                   connected, stopCalls, canceledBy, board, err, firstReady>>

----------------------------------------------------------------------------
(* The BLE backend: bleGPIOPinClient.Set *)

\* what DiscoverCharacteristics gives for one service: an error, or n characteristics
ServiceResults == [err : {TRUE}, n : {0}] \cup [err : {FALSE}, n : {0, 2}]

RECURSIVE ListsUpTo(_, _)
ListsUpTo(S, n) ==
    IF n = 0 THEN {<<>>}
    ELSE LET shorter == ListsUpTo(S, n - 1)
         IN  shorter \cup {Append(l, x) : l \in shorter, x \in S}

\* what DiscoverServices gives: an error, or the services in the adapter's order
Discoveries ==
    [err : {TRUE}, services : {<<>>}]
        \cup [err : {FALSE}, services : ListsUpTo(ServiceResults, MaxServices)]

\* a loop without the break: the last service with a result wins
FindCharLast(services, i) ==
    LET hits == {j \in i..Len(services) : ~services[j].err /\ services[j].n > 0}
    IN  IF hits = {} THEN <<>>
        ELSE <<CHOOSE j \in hits : \A k \in hits : k <= j, 1>>

\* the loop over the services: chars[0] of the first service with a result, <<>> if none
RECURSIVE FindChar(_, _)
FindChar(services, i) ==
    IF i > Len(services) THEN <<>>
    ELSE IF ~services[i].err /\ services[i].n > 0 THEN <<i, 1>>
    ELSE FindChar(services, i + 1)

\* Set: discovery, the lookup, the body (the error of Atoi is overwritten), the
\* write whose result is dropped, return nil
BleSetCall(name, high, disc, accepted) ==
    LET arg == IF high THEN 1 ELSE 0
        ch == FindChar(disc.services, 1)
        pinNum == Atoi(name).val
        req == [endpoint |-> "char", to |-> ch, body |-> WriteBody(pinNum, SetState(high))]
        call == IF disc.err
                THEN Call("Set", name, arg, "err_discover", 0, 0, FALSE, 0, <<>>)
                ELSE IF ch = <<>>
                THEN Call("Set", name, arg, "err_nochar", 0, 0, FALSE, 0, <<>>)
                ELSE Call("Set", name, arg, "ok", IF accepted THEN 1 ELSE 0, 0, FALSE, 0,
                          <<req>>)
    IN  [call EXCEPT !.disc = disc]

bleReady == backend = "ble" /\ ctorPc = "returned" /\ board # Nil

\* a Set that calls cancelFunc on its error paths, as the constructor does
BleSetCancelOnError ==
    /\ bleReady
    /\ \E name \in PinNames, high \in BOOLEAN, disc \in Discoveries, accepted \in BOOLEAN :
         /\ lastCall' = BleSetCall(name, high, disc, accepted)
         /\ IF lastCall'.res = "ok" THEN UNCHANGED canceledBy ELSE Cancel("ctor")
    /\ UNCHANGED <<backend, target, ctorPc, enabled, scanPc, nAdverts, cur,
                   deviceFound, timerFired, result, connectCount, connectArg,
                   connected, stopCalls, board, err, firstReady,
                   store, lastSet, lastDuty>>

\* bleGPIOPinClient.Set
BleSet ==
    /\ bleReady
    /\ \E name \in PinNames, high \in BOOLEAN, disc \in Discoveries, accepted \in BOOLEAN :
         lastCall' = BleSetCall(name, high, disc, accepted)
    /\ UNCHANGED <<backend, target, ctorPc, enabled, scanPc, nAdverts, cur,
                   deviceFound, timerFired, result, connectCount, connectArg,
                   connected, stopCalls, canceledBy, board, err, firstReady,
                   store, lastSet, lastDuty>>

----------------------------------------------------------------------------
(* Both backends: handles, unimplemented operations, Close *)

\* the operations that only return an error
StubOps ==
    IF backend = "ble"
    THEN {"Get", "PWM", "SetPWM", "PWMFreq", "SetPWMFreq", "AnalogRead", "AnalogWrite",
          "AnalogByName", "DigitalInterruptByName", "StreamTicks", "SetPowerMode",
          "DoCommand"}
    ELSE {"PWMFreq", "SetPWMFreq", "AnalogWrite", "DigitalInterruptByName",
          "StreamTicks", "SetPowerMode", "DoCommand"}

\* the operations that build a pin handle
HandleOps ==
    IF backend = "ble" THEN {"GPIOPinByName"} ELSE {"GPIOPinByName", "AnalogByName"}

\* an unimplemented operation that does nothing and reports success
StubSilent ==
    /\ ctorPc = "returned" /\ board # Nil
    /\ \E op \in StubOps :
         lastCall' = Call(op, <<>>, 0, "ok", 0, 0, FALSE, 0, <<>>)
    /\ UNCHANGED <<backend, target, ctorPc, enabled, scanPc, nAdverts, cur,
                   deviceFound, timerFired, result, connectCount, connectArg,
                   connected, stopCalls, canceledBy, board, err, firstReady,
                   store, lastSet, lastDuty>>

\* an unimplemented operation
Stub ==
    /\ ctorPc = "returned" /\ board # Nil
    /\ \E op \in StubOps :
         lastCall' = Call(op, <<>>, 0, "err_notimpl", 0, 0, FALSE, 0, <<>>)
    /\ UNCHANGED <<backend, target, ctorPc, enabled, scanPc, nAdverts, cur,
                   deviceFound, timerFired, result, connectCount, connectArg,
                   connected, stopCalls, canceledBy, board, err, firstReady,
                   store, lastSet, lastDuty>>

\* GPIOPinByName, AnalogByName: the name is stored, not parsed
ByName ==
    /\ ctorPc = "returned" /\ board # Nil
    /\ \E op \in HandleOps, name \in PinNames :
         lastCall' = Call(op, name, 0, "ok", 0, 0, FALSE, 0, <<>>)
    /\ UNCHANGED <<backend, target, ctorPc, enabled, scanPc, nAdverts, cur,
                   deviceFound, timerFired, result, connectCount, connectArg,
                   connected, stopCalls, canceledBy, board, err, firstReady,
                   store, lastSet, lastDuty>>

\* a Close that also disconnects the device
CloseDisconnect ==
    /\ ctorPc = "returned" /\ board # Nil
    /\ Cancel("close")
    /\ connected' = FALSE
    /\ lastCall' = Call("Close", <<>>, 0, "ok", 0, 0, FALSE, 0, <<>>)
    /\ UNCHANGED <<backend, target, ctorPc, enabled, scanPc, nAdverts, cur,
                   deviceFound, timerFired, result, connectCount, connectArg,
                   stopCalls, board, err, firstReady, store, lastSet, lastDuty>>

\* Close: s.cancelFunc(); return nil
Close ==
    /\ ctorPc = "returned" /\ board # Nil
    /\ Cancel("close")
    /\ lastCall' = Call("Close", <<>>, 0, "ok", 0, 0, FALSE, 0, <<>>)
    /\ UNCHANGED <<backend, target, ctorPc, enabled, scanPc, nAdverts, cur,
                   deviceFound, timerFired, result, connectCount, connectArg,
                   connected, stopCalls, board, err, firstReady, store, lastSet, lastDuty>>

----------------------------------------------------------------------------
(* Construction: both constructors, the scan, Close *)

Init ==
    /\ backend \in {"ble", "http"}
    /\ target \in (IF backend = "ble" THEN TargetNames ELSE {<<>>})
    /\ ctorPc = "start"
    /\ enabled = "unknown"
    /\ scanPc = "idle"
    /\ nAdverts = 0
    /\ cur = NoResult
    /\ deviceFound = <<>>
    /\ timerFired = FALSE
    /\ result = NoResult
    /\ connectCount = 0
    /\ connectArg = 0
    /\ connected = FALSE
    /\ stopCalls = 0
    /\ canceledBy = {}
    /\ board = Nil
    /\ err = "none"
    /\ firstReady = "none"
    /\ store = [p \in Pins |-> 0]
    /\ lastSet = [p \in Pins |-> NoPin]
    /\ lastDuty = [p \in Pins |-> NoPin]
    /\ lastCall = NoCall

Next ==
    \/ CtorEnable
    \/ TimerFire
    \/ ScanBegin
    \/ ScanCallback
    \/ ScanSend
    \/ ScanStop
    \/ ScanReturn
    \/ ScanFail
    \/ CtorSelectFound
    \/ CtorSelectTimeout
    \/ CtorConnect
    \/ HttpNew
    \/ Close

Spec == Init /\ [][Next]_vars

----------------------------------------------------------------------------
(* Operation: a board as its constructor returned it.  The BLE board was    *)
(* found on the last advertisement of the scan and connected before the    *)
(* callback reached StopScan; the HTTP server has nothing stored.          *)

BoardInitBle ==
    /\ backend = "ble"
    /\ target \in TargetNames
    /\ ctorPc = "returned"
    /\ enabled = "ok"
    /\ scanPc = "sent"
    /\ nAdverts = MaxAdverts
    /\ cur = [name |-> target, addr |-> 1]
    /\ deviceFound = <<>>
    /\ timerFired = FALSE
    /\ result = cur
    /\ connectCount = 1
    /\ connectArg = result.addr
    /\ connected = TRUE
    /\ stopCalls = 0
    /\ canceledBy = {}
    /\ board = [kind |-> "ble", device |-> result.addr]
    /\ err = "none"
    /\ firstReady = "found"

BoardInitHttp ==
    /\ backend = "http"
    /\ target = <<>>
    /\ ctorPc = "returned"
    /\ enabled = "unknown"
    /\ scanPc = "idle"
    /\ nAdverts = 0
    /\ cur = NoResult
    /\ deviceFound = <<>>
    /\ timerFired = FALSE
    /\ result = NoResult
    /\ connectCount = 0
    /\ connectArg = 0
    /\ connected = FALSE
    /\ stopCalls = 0
    /\ canceledBy = {}
    /\ board = [kind |-> "http", device |-> 0]
    /\ err = "none"
    /\ firstReady = "none"

BoardInit ==
    /\ BoardInitBle \/ BoardInitHttp
    /\ store = [p \in Pins |-> 0]
    /\ lastSet = [p \in Pins |-> NoPin]
    /\ lastDuty = [p \in Pins |-> NoPin]
    /\ lastCall = NoCall

BoardNext ==
    \/ ScanStop
    \/ ScanReturn
    \/ ScanFail
    \/ BleSet
    \/ HttpSet
    \/ HttpSetPWM
    \/ HttpGet
    \/ HttpPWM
    \/ HttpAnalogRead
    \/ Stub
    \/ ByName
    \/ Close

BoardSpec == BoardInit /\ [][BoardNext]_vars

\* what the runtime guarantees: the timer fires, runnable goroutines run
Fairness ==
    /\ WF_vars(CtorEnable)
    /\ WF_vars(TimerFire)
    /\ WF_vars(CtorSelectFound)
    /\ WF_vars(CtorSelectTimeout)
    /\ WF_vars(CtorConnect)
    /\ WF_vars(ScanBegin)
    /\ WF_vars(ScanSend)
    /\ WF_vars(ScanStop)

FairSpec == Init /\ [][Next]_vars /\ Fairness

----------------------------------------------------------------------------
(* Properties of the BLE constructor *)

\* the two names are equal once both are lower-cased
SameIgnoringCase(s, t) ==
    [i \in 1..Len(s) |-> FoldChar(s[i])] = [i \in 1..Len(t) |-> FoldChar(t[i])]

\* the constructor came back with the timeout error and no board
TimedOut == ctorPc = "returned" /\ err = "timeout" /\ board = Nil

\* C1: however many advertisements match, adapter.Connect is called at most
\* once, the callback's send on a matching advertisement can always complete
\* (it never waits for room in the channel), and a constructor that received
\* a match ends with the board or the connect error, after exactly one Connect.
C1_ConnectOnce ==
    /\ connectCount <= 1
    /\ (scanPc = "matched" => ENABLED ScanSend)
    /\ (ctorPc = "returned" /\ result # NoResult
          => connectCount = 1 /\ err \in {"none", "connect"})

\* a further match arrives after the constructor has connected
C1_Witness == connectCount = 1 /\ scanPc = "matched" /\ ctorPc = "returned"

\* C2: from the start of the scan, either a matching advertisement is
\* delivered or the constructor eventually returns no board and the timeout error.
C2_TimeoutWhenNoMatch ==
    (ctorPc = "select" /\ scanPc = "spawned") ~> (scanPc = "matched" \/ TimedOut)

\* advertisements were delivered, none matched, the constructor timed out
C2_Witness ==
    /\ TimedOut
    /\ nAdverts = MaxAdverts
    /\ firstReady = "timer"
    /\ deviceFound = <<>>
    /\ stopCalls = 0

\* C3 as stated: the case that became ready first decides the outcome.
C3_FirstReadyDecides ==
    ctorPc = "returned" /\ enabled = "ok" =>
        /\ (firstReady = "found" => err # "timeout" /\ connectCount = 1)
        /\ (firstReady = "timer" => err = "timeout" /\ connectCount = 0)

\* C3 (amended): the select decides by the cases that are ready when the
\* constructor runs it: only the found-signal ready, it goes on to Connect;
\* only the timer ready, it returns the timeout error without connecting;
\* and a construction that timed out never connects, one that connected
\* never reports the timeout.
C3_ReadyCaseDecides ==
    /\ [][ctorPc = "select" /\ ctorPc' # "select" =>
            /\ (Len(deviceFound) > 0 /\ ~timerFired
                  => ctorPc' = "connect" /\ err' = "none"
                     /\ result' = Head(deviceFound))
            /\ (deviceFound = <<>> /\ timerFired
                  => ctorPc' = "returned" /\ err' = "timeout"
                     /\ connectCount' = 0)]_vars
    /\ [](err = "timeout" => connectCount = 0 /\ ctorPc = "returned")
    /\ [](connectCount > 0 => err # "timeout")

\* the found-signal alone was ready and the constructor took it
C3_Witness ==
    ctorPc = "connect" /\ ~timerFired /\ firstReady = "found"

\* C4 as stated: when adapter.Scan fails before any match was found and
\* before the deadline, the constructor does not report the timeout.
C4_ScanErrorIsNotTimeout ==
    ctorPc = "returned" /\ firstReady = "scanerr" => err # "timeout"

\* C5: a board is returned only together with no error, after Enable
\* succeeded, a found-signal was received and Connect succeeded; an Enable
\* failure returns before any scan is started; every failure returns no board.
C5_NoPartialBoard ==
    backend = "ble" =>
        /\ (ctorPc # "returned" => board = Nil /\ err = "none")
        /\ (ctorPc = "returned" => (board = Nil <=> err # "none"))
        /\ (board # Nil =>
              /\ enabled = "ok"
              /\ result # NoResult
              /\ connectCount = 1
              /\ connected
              /\ board.device = result.addr)
        /\ (enabled = "fail" =>
              ctorPc = "returned" /\ err = "enable" /\ scanPc = "idle"
              /\ connectCount = 0)
        /\ (err = "connect" => ~connected /\ connectCount = 1)

\* the constructor gave up after a failed Connect
C5_Witness == ctorPc = "returned" /\ err = "connect" /\ board = Nil

\* C6: what is sent on the channel, what stops the scan, what the constructor
\* receives and the address it connects to all come from an advertisement
\* whose name equals the configured name ignoring case.
C6_OnlyTargetConnects ==
    /\ \A i \in 1..Len(deviceFound) : SameIgnoringCase(deviceFound[i].name, target)
    /\ (scanPc \in {"matched", "sent"} => SameIgnoringCase(cur.name, target))
    /\ (result # NoResult => SameIgnoringCase(result.name, target))
    /\ (stopCalls > 0 => firstReady = "found" \/ timerFired)
    /\ (connectCount > 0 => result # NoResult /\ connectArg = result.addr)

\* connected to a case variant of the configured name, the last of the advertisements
C6_Witness ==
    /\ connectCount = 1
    /\ result.name # target
    /\ nAdverts = MaxAdverts
    /\ connectArg = 2

----------------------------------------------------------------------------
(* Properties of the pin operations *)

\* the operations on a pin handle that both the claim and the HTTP client know
PinOps == {"Set", "Get", "PWM", "SetPWM", "AnalogRead"}

\* the name is a decimal numeral: one or more digits and nothing else
IsNumeral(name) == name # <<>> /\ \A i \in 1..Len(name) : IsDigit(name[i])

\* d * 100 rounded to the nearest integer, halves away from zero, d = n / DutyDenom
Round100(n) == (2 * n * 100 + DutyDenom) \div (2 * DutyDenom)

\* C7 as stated: a pin operation on a name that is no non-negative integer
\* returns an error and sends nothing; making the handle succeeds.
C7_InvalidPinIsError ==
    /\ (lastCall.op \in PinOps /\ ~IsNumeral(lastCall.pin)
          => lastCall.res # "ok" /\ lastCall.sent = <<>>)
    /\ (lastCall.op = "GPIOPinByName" => lastCall.res = "ok")

\* C8: an HTTP pin operation whose pin name parses sends exactly one request,
\* whatever the answer (none is sent for a name that does not parse); answered
\* with a status other than 200 it returns the error carrying that status; a
\* transport failure too follows one request.
C8_StatusErrorNoRetry ==
    backend = "http" /\ lastCall.op \in PinOps =>
        /\ Len(lastCall.sent) = (IF lastCall.res = "err_atoi" THEN 0 ELSE 1)
        /\ (lastCall.got \notin {0, 200} =>
              /\ lastCall.res = "err_status"
              /\ lastCall.status = lastCall.got
              /\ Len(lastCall.sent) = 1)
        /\ (lastCall.res = "err_send" => Len(lastCall.sent) = 1)
        /\ (lastCall.res = "err_status" => lastCall.got \notin {0, 200})

\* a Get answered with 500
C8_Witness ==
    /\ backend = "http"
    /\ lastCall.op = "Get"
    /\ lastCall.got = 500
    /\ lastCall.res = "err_status"

\* C9: a successful read of a pin p >= 0 whose last write was a successful
\* Set of level s returns s: analog Read gives s, Get gives s = 100.
C9_SetThenRead ==
    backend = "http" /\ lastCall.op \in {"AnalogRead", "Get"} /\ lastCall.res = "ok" =>
        LET p == Atoi(lastCall.pin).val
        IN  p \in Pins /\ lastSet[p] # NoPin =>
              /\ (lastCall.op = "AnalogRead" => lastCall.num = lastSet[p])
              /\ (lastCall.op = "Get" => lastCall.bool = (lastSet[p] = 100))

\* pin 1 was set high, pin 2 was written since with another state, pin 1 reads 100
C9_Witness ==
    /\ backend = "http"
    /\ lastCall.op = "AnalogRead"
    /\ lastCall.res = "ok"
    /\ lastCall.pin = <<49>>
    /\ lastCall.num = 100
    /\ lastSet[1] = 100
    /\ lastSet[2] = NoPin
    /\ store[2] \notin {0, 100}

\* C10 as stated: SetPWM sends one pin/state pair whose state is the duty
\* cycle times 100, rounded to the nearest integer.
C10_SetPWMRounds ==
    backend = "http" /\ lastCall.op = "SetPWM" /\ Len(lastCall.sent) = 1 =>
        /\ Len(lastCall.sent[1].body.pin_writes) = 1
        /\ lastCall.sent[1].body.pin_writes[1].state = Round100(lastCall.arg)

\* the operations that read a pin over HTTP
ReadOps == {"Get", "PWM", "AnalogRead"}

\* C11 as stated: a successful PWM of a pin whose last write was a successful
\* SetPWM of duty cycle d returns the state the backend reports, unscaled, and
\* that state is d * 100 rounded to the nearest integer.
C11_PWMReturnsRoundedState ==
    backend = "http" /\ lastCall.op = "PWM" /\ lastCall.res = "ok" =>
        LET p == Atoi(lastCall.pin).val
        IN  p \in Pins /\ lastDuty[p] # NoPin =>
              /\ lastCall.num = lastCall.resp.state
              /\ lastCall.num = Round100(lastDuty[p])

\* C12: Set sends state 100 for high and 0 for low; a Get answered with 200
\* and a well-formed body returns no error and true exactly when the state
\* reported is 100.
C12_BooleanMapping ==
    backend = "http" =>
        /\ (lastCall.op = "Set" /\ lastCall.res # "err_atoi" =>
              /\ Len(lastCall.sent) = 1
              /\ lastCall.sent[1].endpoint = "write-pins"
              /\ lastCall.sent[1].body.pin_writes[1].state
                    = (IF lastCall.arg = 1 THEN 100 ELSE 0))
        /\ (lastCall.op = "Get" /\ lastCall.got = 200 /\ lastCall.resp.kind = "good" =>
              /\ lastCall.res = "ok"
              /\ lastCall.bool = (lastCall.resp.state = 100))

\* a Get of a pin whose state is neither 0 nor 100 returns false and no error
C12_Witness ==
    /\ backend = "http"
    /\ lastCall.op = "Get"
    /\ lastCall.res = "ok"
    /\ lastCall.resp.state \notin {0, 100}
    /\ lastCall.bool = FALSE

\* C13 as stated: a read answered with 200 and a body that is not of the
\* expected shape returns the decoding error.
C13_MalformedIsError ==
    backend = "http" /\ lastCall.op \in ReadOps /\ lastCall.got = 200
        /\ lastCall.resp.kind # "good" => lastCall.res = "err_decode"

\* C14 as stated: a BLE Set returns nil only when the transport accepted the
\* write of the body.
C14_SetFailsWhenWriteRejected ==
    backend = "ble" /\ lastCall.op = "Set" /\ lastCall.res = "ok" => lastCall.got = 1

----------------------------------------------------------------------------
(* Properties of the board as a whole *)

\* the board: its configuration, construction, device handle and cancellation
boardVars ==
    <<backend, target, ctorPc, enabled, scanPc, nAdverts, cur, deviceFound, timerFired,
      result, connectCount, connectArg, connected, stopCalls, canceledBy, board, err,
      firstReady>>

\* the HTTP server and what was last written to it
serverVars == <<store, lastSet, lastDuty>>

\* the operations said to be unsupported on the BLE board
NotSupportedBle ==
    {"Get", "PWM", "SetPWM", "PWMFreq", "SetPWMFreq", "AnalogRead", "AnalogWrite",
     "AnalogByName", "DigitalInterruptByName", "StreamTicks", "SetPowerMode"}

\* the operations said to be unsupported on the HTTP board
NotSupportedHttp == {"DigitalInterruptByName", "StreamTicks", "SetPowerMode"}

NotSupported == IF backend = "ble" THEN NotSupportedBle ELSE NotSupportedHttp

\* C15: on either board an unsupported operation returns the not-implemented
\* error, whatever the state of the board, without a discovery, a write or a
\* request, and changes nothing of the board or the server.
C15_NotSupported ==
    /\ [](lastCall.op \in NotSupported =>
            /\ lastCall.res = "err_notimpl"
            /\ lastCall.sent = <<>>
            /\ lastCall.disc = NoDisc
            /\ lastCall.resp = NoResp)
    /\ [][lastCall' # lastCall /\ lastCall'.op \in NotSupported
            => UNCHANGED <<boardVars, serverVars>>]_vars

\* Get on a BLE board that was closed and whose scan has failed
C15_Witness ==
    /\ backend = "ble"
    /\ lastCall.op = "Get"
    /\ lastCall.res = "err_notimpl"
    /\ canceledBy = {"scan", "close"}

\* C16: Close invokes cancelFunc and returns nil, in every state of a
\* constructed board, also one already closed; it leaves the device handle,
\* the link, the scan and the server as they were.
C16_CloseOnlyCancels ==
    /\ [][lastCall' # lastCall /\ lastCall'.op = "Close" =>
            /\ canceledBy' = canceledBy \cup {"close"}
            /\ lastCall'.res = "ok"
            /\ UNCHANGED <<backend, target, ctorPc, enabled, scanPc, nAdverts, cur,
                           deviceFound, timerFired, result, connectCount, connectArg,
                           connected, stopCalls, board, err, firstReady>>
            /\ UNCHANGED serverVars]_vars
    /\ [](ctorPc = "returned" /\ board # Nil => ENABLED Close)
    /\ [](bleReady => connected /\ board.device = connectArg)

\* a Set on a closed BLE board, its scan still active, discovers and writes
C16_Witness ==
    /\ backend = "ble"
    /\ "close" \in canceledBy
    /\ scanPc = "sent"
    /\ connected
    /\ lastCall.op = "Set"
    /\ lastCall.res = "ok"
    /\ lastCall.disc # NoDisc
    /\ Len(lastCall.sent) = 1

\* the errors a pin operation returns
FailRes == {"err_atoi", "err_send", "err_status", "err_decode", "err_discover", "err_nochar"}

\* C17: a pin operation that returns an error changes nothing of the board
\* (backend, device handle, link, cancellation) nor of the server.
C17_FailedCallChangesNothing ==
    [][lastCall' # lastCall /\ lastCall'.op \in PinOps /\ lastCall'.res \in FailRes
         => UNCHANGED <<boardVars, serverVars>>]_vars

\* a Set low on pin 1 answered with 500, the pin still high from the Set before
C17_Witness ==
    /\ backend = "http"
    /\ lastCall.op = "Set"
    /\ lastCall.pin = <<49>>
    /\ lastCall.arg = 0
    /\ lastCall.res = "err_status"
    /\ store[1] = 100
    /\ lastSet[1] = 100

\* C18 as stated: in one scan at most one send on deviceFound succeeds and
\* StopScan is requested at most once.
C18_FoundSignalledOnce ==
    stopCalls + (IF scanPc = "sent" THEN 1 ELSE 0) <= 1

\* the least element of a non-empty set of numbers
Least(S) == CHOOSE i \in S : \A j \in S : i <= j

\* C19: a BLE Set writes to the first characteristic of the first service, in
\* the adapter's order, whose discovery succeeded with a result; with no such
\* service it returns the not-found error and writes nothing; when the
\* enumeration of the services fails it returns that error and writes nothing.
C19_FirstCharOfFirstService ==
    backend = "ble" /\ lastCall.op = "Set" =>
        LET d == lastCall.disc
            hits == {i \in 1..Len(d.services) :
                        ~d.services[i].err /\ d.services[i].n > 0}
        IN  /\ d # NoDisc
            /\ (d.err => lastCall.res = "err_discover" /\ lastCall.sent = <<>>)
            /\ (~d.err /\ hits = {} => lastCall.res = "err_nochar" /\ lastCall.sent = <<>>)
            /\ (~d.err /\ hits # {} =>
                  /\ lastCall.res = "ok"
                  /\ Len(lastCall.sent) = 1
                  /\ lastCall.sent[1].to = <<Least(hits), 1>>)

\* the first service gave nothing, every later one has the characteristic: the
\* write goes to the second service
C19_Witness ==
    /\ backend = "ble"
    /\ lastCall.op = "Set"
    /\ Len(lastCall.disc.services) = MaxServices
    /\ lastCall.disc.services[1].n = 0
    /\ \A i \in 2..MaxServices : lastCall.disc.services[i].n > 0
    /\ lastCall.sent # <<>>
    /\ lastCall.sent[1].to = <<2, 1>>

\* C20 as stated: adapter.Connect is invoked only after adapter.StopScan was
\* requested.
C20_StopBeforeConnect == connectCount > 0 => stopCalls > 0

\* C21 as stated: once the constructor has returned, with the board or with
\* an error, the scan was never started, has been asked to stop, or has ended.
C21_ScanStopsAfterReturn ==
    (ctorPc = "returned")
        ~> (scanPc \in {"idle", "done", "errored"} \/ stopCalls > 0)

\* C22 as stated: the context of a board that was returned is canceled by
\* Close only; the constructor cancels only when it returns no board, and the
\* scan goroutine only when no board is returned.
C22_CanceledOnlyByClose ==
    /\ (bleReady => canceledBy \subseteq {"close"})
    /\ ("ctor" \in canceledBy => ctorPc = "returned" /\ board = Nil)

====
